---- MODULE Spec2Model ----
(***************************************************************************)
(* Bulk customer intake of the CRM GraphQL schema (crm/schema.py):         *)
(* BulkCreateCustomers.mutate and CreateCustomer.mutate over the Customer  *)
(* table.  Strings are sequences of one-character strings, so that         *)
(* strip(), lower() and the validators are computed, not assumed.  A       *)
(* Python optional (phone) is <<>> for None and <<s>> for the string s.    *)
(***************************************************************************)
EXTENDS Naturals, Sequences, FiniteSets, TLC

\* ------------------------------------------------------------------ bounds
\* longest batch a client sends
MaxBatch == 3
\* candidates the clients send in all, over all calls
MaxItems == 3

\* ------------------------------------------------------------- characters
Whitespace == {" ", "\t", "\n"}
Digits == {"0", "1", "2", "3", "4", "5", "6", "7", "8", "9"}
UpperCase == <<"A", "B", "C", "D", "E", "F", "G", "H", "I", "J", "K", "L", "M",
               "N", "O", "P", "Q", "R", "S", "T", "U", "V", "W", "X", "Y", "Z">>
LowerCase == <<"a", "b", "c", "d", "e", "f", "g", "h", "i", "j", "k", "l", "m",
               "n", "o", "p", "q", "r", "s", "t", "u", "v", "w", "x", "y", "z">>
Letters == {UpperCase[i] : i \in DOMAIN UpperCase} \cup {LowerCase[i] : i \in DOMAIN LowerCase}

None == <<>>
Some(s) == <<s>>

\* ------------------------------------------------------- string functions
\* str.lower() on one character
LowerChar(c) ==
    IF \E i \in DOMAIN UpperCase : UpperCase[i] = c
    THEN LowerCase[CHOOSE i \in DOMAIN UpperCase : UpperCase[i] = c]
    ELSE c

\* str.lower()
Lower(s) == [i \in 1..Len(s) |-> LowerChar(s[i])]

RECURSIVE LStrip(_)
LStrip(s) == IF s # <<>> /\ s[1] \in Whitespace THEN LStrip(Tail(s)) ELSE s

RECURSIVE RStrip(_)
RStrip(s) ==
    IF s # <<>> /\ s[Len(s)] \in Whitespace THEN RStrip(SubSeq(s, 1, Len(s) - 1)) ELSE s

\* str.strip()
Strip(s) == RStrip(LStrip(s))

\* the characters of s as one TLA+ string (an f-string's interpolation)
RECURSIVE Join(_)
Join(s) == IF s = <<>> THEN "" ELSE s[1] \o Join(Tail(s))

\* ------------------------------------------------------------- validators
\* re: \d{lo,hi} anchored at both ends of s
DigitRun(s, lo, hi) ==
    /\ Len(s) >= lo
    /\ Len(s) <= hi
    /\ \A i \in 1..Len(s) : s[i] \in Digits

PhoneMinDigits == 7
PhoneMaxDigits == 15

\* fault: the pattern with a mandatory '+', ^(\+\d{7,15}|\d{3}-\d{3}-\d{4})$
PHONE_RE_match_plus_required(phone) ==
    \/ /\ phone # <<>>
       /\ phone[1] = "+"
       /\ DigitRun(Tail(phone), PhoneMinDigits, PhoneMaxDigits)
    \/ /\ Len(phone) = 12
       /\ DigitRun(SubSeq(phone, 1, 3), 3, 3)
       /\ phone[4] = "-"
       /\ DigitRun(SubSeq(phone, 5, 7), 3, 3)
       /\ phone[8] = "-"
       /\ DigitRun(SubSeq(phone, 9, 12), 4, 4)

\* PHONE_RE.match(phone): ^(\+?\d{7,15}|\d{3}-\d{3}-\d{4})$
PHONE_RE_match(phone) ==
    \/ LET rest == IF phone # <<>> /\ phone[1] = "+" THEN Tail(phone) ELSE phone
       IN  DigitRun(rest, PhoneMinDigits, PhoneMaxDigits)
    \/ /\ Len(phone) = 12
       /\ DigitRun(SubSeq(phone, 1, 3), 3, 3)
       /\ phone[4] = "-"
       /\ DigitRun(SubSeq(phone, 5, 7), 3, 3)
       /\ phone[8] = "-"
       /\ DigitRun(SubSeq(phone, 9, 12), 4, 4)

PhoneMessage == "Invalid phone format. Use +1234567890 or 123-456-7890."

\* validate_phone(phone): the ValidationError message raised, or "" for none
validate_phone(phone) ==
    IF phone # <<>> /\ ~PHONE_RE_match(phone) THEN PhoneMessage ELSE ""

\* django.core.validators.validate_email, on the characters the inputs use:
\* a dot-atom user part, "@", and a domain of dot-separated labels whose
\* last label has at least two characters.
AtomChars == Letters \cup Digits \cup {"-", "+", "_"}
LabelChars == Letters \cup Digits \cup {"-"}

\* index of the last "@" of s, 0 when there is none (value.rsplit("@", 1))
LastAt(s) ==
    IF \E i \in 1..Len(s) : s[i] = "@"
    THEN CHOOSE i \in 1..Len(s) : s[i] = "@" /\ \A j \in (i + 1)..Len(s) : s[j] # "@"
    ELSE 0

UserPartOK(u) ==
    /\ u # <<>>
    /\ \A i \in 1..Len(u) : u[i] \in AtomChars \cup {"."}
    /\ u[1] # "."
    /\ u[Len(u)] # "."
    /\ \A i \in 1..(Len(u) - 1) : ~(u[i] = "." /\ u[i + 1] = ".")

DomainPartOK(d) ==
    /\ d # <<>>
    /\ \A i \in 1..Len(d) : d[i] \in LabelChars \cup {"."}
    /\ \E i \in 1..Len(d) : d[i] = "."
    /\ d[1] \notin {".", "-"}
    /\ d[Len(d)] \notin {".", "-"}
    /\ \A i \in 1..(Len(d) - 1) :
          /\ ~(d[i] = "." /\ d[i + 1] \in {".", "-"})
          /\ ~(d[i] = "-" /\ d[i + 1] = ".")
    /\ Len(d) >= 2
    /\ d[Len(d) - 1] # "."

EmailMessage == "Enter a valid email address."

validate_email(value) ==
    IF /\ LastAt(value) # 0
       /\ UserPartOK(SubSeq(value, 1, LastAt(value) - 1))
       /\ DomainPartOK(SubSeq(value, LastAt(value) + 1, Len(value)))
    THEN ""
    ELSE EmailMessage

\* ----------------------------------------------------------------- inputs
\* " An" / "Bo" / whitespace only
NameAnn == <<" ", "A", "n">>
NameBob == <<"B", "o">>
NameBlank == <<" ", "\t">>

\* " A@b.io" normalises to "a@b.io"; "a@b.io " too
EmailAUpper == <<" ", "A", "@", "b", ".", "i", "o">>
EmailA == <<"a", "@", "b", ".", "i", "o", " ">>
EmailC == <<"c", "@", "b", ".", "i", "o">>
EmailE == <<"E", "@", "b", ".", "i", "o">>
EmailBad == <<"b", "a", "d", "-", "e", "m", "a", "i", "l">>
EmailNoTld == <<"a", "@", "b">>

PhonePlusShort == <<"+", "1", "2", "3", "4", "5", "6">>
PhonePlusLong == <<"+", "1", "2", "3", "4", "5", "6", "7", "8", "9", "0", "1", "2", "3", "4", "5", "6">>
PhoneDigits == <<"1", "2", "3", "4", "5", "6", "7">>
PhoneDashed == <<"1", "2", "3", "-", "4", "5", "6", "-", "7", "8", "9", "0">>
PhoneShort == <<"1", "2", "3">>
PhoneBlank == <<" ">>
PhonePadded == <<" ", "+", "1", "2", "3", "4", "5", "6", "7", " ">>

Cand(n, e, ph) == [name |-> n, email |-> e, phone |-> ph]

\* the candidates a batch is drawn from (BulkCustomerInput values)
Candidates ==
    { Cand(NameAnn, EmailAUpper, Some(PhonePadded)),
      Cand(NameBob, EmailA, None),
      Cand(NameBob, EmailC, Some(PhoneDashed)),
      Cand(NameAnn, EmailE, Some(PhoneDigits)),
      Cand(NameBob, EmailE, Some(PhoneBlank)),
      Cand(NameBlank, EmailNoTld, Some(PhoneShort)),
      Cand(NameBob, EmailBad, Some(PhoneShort)),
      Cand(NameAnn, EmailC, Some(PhonePlusShort)),
      Cand(NameBob, EmailA, Some(PhonePlusLong)) }

RECURSIVE SeqsUpTo(_, _)
SeqsUpTo(S, n) ==
    IF n = 0 THEN {<<>>}
    ELSE LET shorter == SeqsUpTo(S, n - 1)
         IN  shorter \cup {Append(b, c) : b \in {t \in shorter : Len(t) = n - 1}, c \in S}

Batches == SeqsUpTo(Candidates, MaxBatch)

\* the batches of at most n candidates
BatchesUpTo(n) == {b \in Batches : Len(b) <= n}

\* Customer rows: name, email, phone (None or a string)
Row(n, e, ph) == [name |-> n, email |-> e, phone |-> ph]

\* the tables the calls may start from: empty, or rows written earlier by
\* the mutations and the seed script, whose emails are stored trimmed and
\* lower-cased
InitialStorages ==
    { <<>>,
      <<Row(<<"A", "l">>, <<"a", "@", "b", ".", "i", "o">>, Some(PhoneDashed))>> }

Procs == {1, 2}

\* ------------------------------------------------------------------ state
VARIABLES
    storage,         \* committed Customer rows, in insertion order
    txn,             \* txn[p]: rows written inside p's open atomic block
    txn_open,        \* txn_open[p]: p is inside "with transaction.atomic()"
    opened,          \* opened[p]: atomic blocks the call has entered
    pc,              \* pc[p]: where call p stands
    input,           \* input[p]: the batch of the call
    idx,             \* idx[p]: enumerate() index of the next candidate
    valid_payloads,  \* valid_payloads[p]: (name, email, phone) marked valid
    errors,          \* errors[p]: error strings collected so far
    emails_seen,     \* emails_seen[p]: emails of the candidates marked valid
    created,         \* created[p]: rows returned by Customer.objects.create
    result,          \* result[p]: what the call returned or raised
    storage_before,  \* storage_before[p]: the table when the call started
    resubmit,        \* resubmit[p]: the call repeats the batch of the call before it, which created every candidate
    submitted        \* number of candidates the clients have drawn so far, over all calls

vars == <<storage, txn, txn_open, opened, pc, input, idx, valid_payloads, errors,
          emails_seen, created, result, storage_before, resubmit, submitted>>

NoResult ==
    [kind |-> "none", customers |-> <<>>, errors |-> <<>>, success_count |-> 0,
     total_count |-> 0, message |-> "", success |-> FALSE]

\* ------------------------------------------------------------ ORM queries
\* fault: the lookup filters on another column
EmailExists_wrong_field(rows, email) == \E i \in 1..Len(rows) : rows[i].name = email

\* Customer.objects.filter(email=email).exists()
EmailExists(rows, email) == \E i \in 1..Len(rows) : rows[i].email = email

\* ---------------------------------------------------- per-item validation
NameMessage == "Name is required."
DuplicateMessage(email) == "Duplicate email in request: " \o Join(email)
ExistsMessage(email) == "Email already exists: " \o Join(email)

\* lines 207-209: the normalised fields of one candidate
NormName(item) == Strip(item.name)
\* fault: the email is trimmed but not lower-cased
NormEmail_not_lowered(item) == Strip(item.email)
NormEmail(item) == Lower(Strip(item.email))
NormPhone(item) == IF item.phone # None THEN Some(Strip(item.phone[1])) ELSE None

\* "if phone:" is false for None and for the empty string
PhonePresent(phone) == phone # None /\ phone[1] # <<>>

\* fault: the phone is validated before the email
ItemError_phone_before_email(item, seen, rows) ==
    IF NormName(item) = <<>> THEN NameMessage
    ELSE IF PhonePresent(NormPhone(item)) /\ validate_phone(NormPhone(item)[1]) # ""
    THEN validate_phone(NormPhone(item)[1])
    ELSE IF validate_email(NormEmail(item)) # "" THEN validate_email(NormEmail(item))
    ELSE IF NormEmail(item) \in seen THEN DuplicateMessage(NormEmail(item))
    ELSE IF EmailExists(rows, NormEmail(item)) THEN ExistsMessage(NormEmail(item))
    ELSE ""

\* fault: emails_seen is never consulted
ItemError_no_batch_check(item, seen, rows) ==
    IF NormName(item) = <<>> THEN NameMessage
    ELSE IF validate_email(NormEmail(item)) # "" THEN validate_email(NormEmail(item))
    ELSE IF PhonePresent(NormPhone(item)) /\ validate_phone(NormPhone(item)[1]) # ""
    THEN validate_phone(NormPhone(item)[1])
    ELSE IF EmailExists(rows, NormEmail(item)) THEN ExistsMessage(NormEmail(item))
    ELSE ""

\* lines 211-224: the message of the ValidationError one candidate raises,
\* or "" when it raises none
ItemError(item, seen, rows) ==
    IF NormName(item) = <<>> THEN NameMessage
    ELSE IF validate_email(NormEmail(item)) # "" THEN validate_email(NormEmail(item))
    ELSE IF PhonePresent(NormPhone(item)) /\ validate_phone(NormPhone(item)[1]) # ""
    THEN validate_phone(NormPhone(item)[1])
    ELSE IF NormEmail(item) \in seen THEN DuplicateMessage(NormEmail(item))
    ELSE IF EmailExists(rows, NormEmail(item)) THEN ExistsMessage(NormEmail(item))
    ELSE ""

\* str(e) of a ValidationError built from one message: the repr of a list
StrOfError(msg) == "['" \o msg \o "']"

\* fault: the position is reported 0-based
ItemPrefix_zero_based(i) == "Item " \o ToString(i) \o ": "

\* line 230: f"Item {idx + 1}: {str(e)}"
ItemPrefix(i) == "Item " \o ToString(i + 1) \o ": "

ErrorString(i, msg) == ItemPrefix(i) \o StrOfError(msg)

\* line 227: the payload of a candidate marked valid
Payload(item) == Row(NormName(item), NormEmail(item), NormPhone(item))

\* ------------------------------------------------------------ transaction
\* fault: the inserts are not in one transaction, the earlier ones stay
RolledBack_partial(committed, pending) == committed \o pending

\* what the table holds after the atomic block is left by an exception
RolledBack(committed, pending) == committed

\* fault: leaving the block does not commit
Committed_nothing(committed, pending) == committed

\* what the table holds after the atomic block is left normally
Committed(committed, pending) == committed \o pending

\* ----------------------------------------------------------------- Init
Init ==
    /\ storage \in InitialStorages
    /\ txn = [p \in Procs |-> <<>>]
    /\ txn_open = [p \in Procs |-> FALSE]
    /\ opened = [p \in Procs |-> 0]
    /\ pc = [p \in Procs |-> "idle"]
    /\ input = [p \in Procs |-> <<>>]
    /\ idx = [p \in Procs |-> 0]
    /\ valid_payloads = [p \in Procs |-> <<>>]
    /\ errors = [p \in Procs |-> <<>>]
    /\ emails_seen = [p \in Procs |-> {}]
    /\ created = [p \in Procs |-> <<>>]
    /\ result = [p \in Procs |-> NoResult]
    /\ storage_before = [p \in Procs |-> <<>>]
    /\ resubmit = [p \in Procs |-> FALSE]
    /\ submitted = 0

\* ------------------------------------------------- BulkCreateCustomers
\* lines 200-203: the call starts with the batch and empty locals
Enter(p, batch, again) ==
    /\ pc' = [pc EXCEPT ![p] = "validate"]
    /\ input' = [input EXCEPT ![p] = batch]
    /\ idx' = [idx EXCEPT ![p] = 0]
    /\ valid_payloads' = [valid_payloads EXCEPT ![p] = <<>>]
    /\ errors' = [errors EXCEPT ![p] = <<>>]
    /\ emails_seen' = [emails_seen EXCEPT ![p] = {}]
    /\ created' = [created EXCEPT ![p] = <<>>]
    /\ result' = [result EXCEPT ![p] = NoResult]
    /\ storage_before' = [storage_before EXCEPT ![p] = storage]
    /\ resubmit' = [resubmit EXCEPT ![p] = again]
    /\ opened' = [opened EXCEPT ![p] = 0]
    /\ UNCHANGED <<storage, txn, txn_open>>

\* a client sends a batch
BulkBegin(p) ==
    /\ pc[p] = "idle"
    /\ \E batch \in BatchesUpTo(MaxItems - submitted) :
          /\ Enter(p, batch, FALSE)
          /\ submitted' = submitted + Len(batch)

\* the client sends once more, with no call in between, the batch of a call
\* that has just returned every candidate as created
BulkResubmit(p) ==
    /\ pc[p] = "done"
    /\ result[p].kind = "bulk"
    /\ result[p].success_count = result[p].total_count
    /\ ~resubmit[p]
    /\ Enter(p, input[p], TRUE)
    /\ UNCHANGED submitted

\* fault: a rejected candidate is kept as a payload too
MarkValid_despite_error(valid, item, msg) == Append(valid, Payload(item))

\* line 227: valid_payloads after one candidate, msg being its error or ""
MarkValid(valid, item, msg) == IF msg = "" THEN Append(valid, Payload(item)) ELSE valid

\* fault: the email is added once the name, email and phone checks have
\* passed, before the two email look-ups
MarkSeen_after_format(seen, item, msg) ==
    IF msg \in {NameMessage, EmailMessage, PhoneMessage} THEN seen
    ELSE seen \cup {NormEmail(item)}

\* line 226: emails_seen after one candidate
MarkSeen(seen, item, msg) == IF msg = "" THEN seen \cup {NormEmail(item)} ELSE seen

\* lines 229-230: errors after one candidate
CollectError(errs, i, msg) == IF msg = "" THEN errs ELSE Append(errs, ErrorString(i, msg))

\* fault: the query also returns rows that other transactions have written
\* and not committed
VisibleRows_uncommitted(committed, pending) == committed \o pending[1] \o pending[2]

\* line 223: the rows the exists() query of the validation pass reads; it
\* runs outside the atomic block and sees what has been committed
VisibleRows(committed, pending) == committed

\* lines 206-230: one iteration of the validation loop
ValidateItem(p) ==
    /\ pc[p] = "validate"
    /\ idx[p] < Len(input[p])
    /\ LET item == input[p][idx[p] + 1]
           msg == ItemError(item, emails_seen[p], VisibleRows(storage, txn))
       IN  /\ emails_seen' = [emails_seen EXCEPT ![p] = MarkSeen(@, item, msg)]
           /\ valid_payloads' = [valid_payloads EXCEPT ![p] = MarkValid(@, item, msg)]
           /\ errors' = [errors EXCEPT ![p] = CollectError(@, idx[p], msg)]
    /\ idx' = [idx EXCEPT ![p] = @ + 1]
    /\ UNCHANGED <<storage, txn, txn_open, opened, pc, input, created, result,
                   storage_before, resubmit, submitted>>

\* fault: the guard of line 234 is missing
EntersAtomic_always(valid) == TRUE

\* line 234: if valid_payloads
EntersAtomic(valid) == valid # <<>>

\* lines 232-235: the loop is over; the atomic block is entered only when
\* some candidate was marked valid
EndValidate(p) ==
    /\ pc[p] = "validate"
    /\ idx[p] = Len(input[p])
    /\ IF EntersAtomic(valid_payloads[p])
       THEN /\ pc' = [pc EXCEPT ![p] = "atomic"]
            /\ txn_open' = [txn_open EXCEPT ![p] = TRUE]
            /\ opened' = [opened EXCEPT ![p] = @ + 1]
       ELSE /\ pc' = [pc EXCEPT ![p] = "return"]
            /\ UNCHANGED <<txn_open, opened>>
    /\ UNCHANGED <<storage, txn, input, idx, valid_payloads, errors, emails_seen,
                   created, result, storage_before, resubmit, submitted>>

\* lines 236-241: Customer.objects.create succeeds for the next payload
InsertOk(p) ==
    /\ pc[p] = "atomic"
    /\ Len(created[p]) < Len(valid_payloads[p])
    /\ LET row == valid_payloads[p][Len(created[p]) + 1]
       IN  /\ txn' = [txn EXCEPT ![p] = Append(@, row)]
           /\ created' = [created EXCEPT ![p] = Append(@, row)]
    /\ UNCHANGED <<storage, txn_open, opened, pc, input, idx, valid_payloads, errors,
                   emails_seen, result, storage_before, resubmit, submitted>>

\* fault: the transaction is managed by hand and the error path skips the
\* rollback, leaving it open
OpenAfterException_leaked(open) == open

\* line 235: whether the atomic block is still open once an exception has
\* left it (the context manager's __exit__ runs on every path)
OpenAfterException(open) == FALSE

\* lines 235-241: Customer.objects.create raises; the atomic block rolls
\* back and the exception leaves mutate
InsertFails(p) ==
    /\ pc[p] = "atomic"
    /\ Len(created[p]) < Len(valid_payloads[p])
    /\ storage' = RolledBack(storage, txn[p])
    /\ txn' = [txn EXCEPT ![p] = <<>>]
    /\ txn_open' = [txn_open EXCEPT ![p] = OpenAfterException(@)]
    /\ pc' = [pc EXCEPT ![p] = "raised"]
    /\ result' = [result EXCEPT ![p] = [NoResult EXCEPT !.kind = "exception"]]
    /\ UNCHANGED <<opened, input, idx, valid_payloads, errors, emails_seen, created,
                   storage_before, resubmit, submitted>>

\* line 235: the atomic block is left normally and commits
Commit(p) ==
    /\ pc[p] = "atomic"
    /\ Len(created[p]) = Len(valid_payloads[p])
    /\ storage' = Committed(storage, txn[p])
    /\ txn' = [txn EXCEPT ![p] = <<>>]
    /\ txn_open' = [txn_open EXCEPT ![p] = FALSE]
    /\ pc' = [pc EXCEPT ![p] = "return"]
    /\ UNCHANGED <<opened, input, idx, valid_payloads, errors, emails_seen, created,
                   result, storage_before, resubmit, submitted>>

\* lines 243-248
BulkResult(p) ==
    [kind |-> "bulk", customers |-> created[p], errors |-> errors[p],
     success_count |-> Len(created[p]), total_count |-> Len(input[p]),
     message |-> "", success |-> FALSE]

Return(p) ==
    /\ pc[p] = "return"
    /\ result' = [result EXCEPT ![p] = BulkResult(p)]
    /\ pc' = [pc EXCEPT ![p] = "done"]
    /\ UNCHANGED <<storage, txn, txn_open, opened, input, idx, valid_payloads, errors,
                   emails_seen, created, storage_before, resubmit, submitted>>

\* the response has been sent; the call's locals are gone
Finish(p) ==
    /\ pc[p] \in {"done", "raised"}
    /\ pc' = [pc EXCEPT ![p] = "idle"]
    /\ input' = [input EXCEPT ![p] = <<>>]
    /\ idx' = [idx EXCEPT ![p] = 0]
    /\ valid_payloads' = [valid_payloads EXCEPT ![p] = <<>>]
    /\ errors' = [errors EXCEPT ![p] = <<>>]
    /\ emails_seen' = [emails_seen EXCEPT ![p] = {}]
    /\ created' = [created EXCEPT ![p] = <<>>]
    /\ result' = [result EXCEPT ![p] = NoResult]
    /\ storage_before' = [storage_before EXCEPT ![p] = <<>>]
    /\ resubmit' = [resubmit EXCEPT ![p] = FALSE]
    /\ opened' = [opened EXCEPT ![p] = 0]
    /\ UNCHANGED <<storage, txn, txn_open, submitted>>

\* ------------------------------------------------------- CreateCustomer
\* lines 146-187: the result of CreateCustomer.mutate for one input, given
\* whether Customer.objects.create succeeds
SingleResult(item, rows, create_ok) ==
    LET email == NormEmail(item)
        phone == NormPhone(item)
        failed(message, errs) ==
            [kind |-> "single", customers |-> <<>>, errors |-> errs, success_count |-> 0,
             total_count |-> 1, message |-> message, success |-> FALSE]
    IN  IF validate_email(email) # ""
        THEN failed("Validation error", <<StrOfError(validate_email(email))>>)
        ELSE IF PhonePresent(phone) /\ validate_phone(phone[1]) # ""
        THEN failed("Validation error", <<StrOfError(validate_phone(phone[1]))>>)
        ELSE IF EmailExists(rows, email)
        THEN failed("Validation failed", <<"Email already exists.">>)
        ELSE IF ~create_ok
        THEN failed("Failed to create customer", <<"database error">>)
        ELSE [kind |-> "single", customers |-> <<Row(NormName(item), email, phone)>>,
              errors |-> <<>>, success_count |-> 1, total_count |-> 1,
              message |-> "Customer created successfully", success |-> TRUE]

\* lines 139-187: the whole call; the single insert is its own transaction
CreateCustomer(p) ==
    /\ pc[p] = "idle"
    /\ submitted < MaxItems
    /\ \E item \in Candidates, create_ok \in BOOLEAN :
          LET res == SingleResult(item, storage, create_ok)
          IN  /\ result' = [result EXCEPT ![p] = res]
              /\ storage' = storage \o res.customers
              /\ input' = [input EXCEPT ![p] = <<item>>]
    /\ submitted' = submitted + 1
    /\ pc' = [pc EXCEPT ![p] = "done"]
    /\ storage_before' = [storage_before EXCEPT ![p] = storage]
    /\ UNCHANGED <<txn, txn_open, opened, idx, valid_payloads, errors, emails_seen,
                   created, resubmit>>

\* ------------------------------------------------------- specifications
\* one request at a time (section 5: request-scoped, synchronous)
Worker == 1

Next ==
    \/ BulkBegin(Worker)
    \/ BulkResubmit(Worker)
    \/ ValidateItem(Worker)
    \/ EndValidate(Worker)
    \/ InsertOk(Worker)
    \/ InsertFails(Worker)
    \/ Commit(Worker)
    \/ Return(Worker)
    \/ Finish(Worker)
    \/ CreateCustomer(Worker)

Spec == Init /\ [][Next]_vars

\* lines 235-241: the steps inside the atomic block, the create loop and
\* leaving the block; the code is synchronous and waits for nothing
AtomicStep(p) ==
    \/ InsertOk(p)
    \/ InsertFails(p)
    \/ Commit(p)

\* the same behaviours, with an atomic block that was entered never
\* stopping midway
FairSpec == Spec /\ WF_vars(AtomicStep(Worker))

\* the candidates two concurrent clients send: one email in two spellings,
\* and another email
ConcurrentCandidates ==
    { Cand(NameAnn, EmailAUpper, Some(PhonePadded)),
      Cand(NameBob, EmailA, None),
      Cand(NameBob, EmailC, Some(PhoneDashed)) }

\* a client sends a batch while another call may be under way
BulkBeginConcurrent(p) ==
    /\ pc[p] = "idle"
    /\ \E batch \in SeqsUpTo(ConcurrentCandidates, MaxItems - submitted) :
          /\ Len(batch) <= MaxBatch
          /\ Enter(p, batch, FALSE)
          /\ submitted' = submitted + Len(batch)

\* two clients at once: every worker of the server takes BulkCreateCustomers
\* calls, and their steps interleave
NextConc ==
    \E p \in Procs :
        \/ BulkBeginConcurrent(p)
        \/ ValidateItem(p)
        \/ EndValidate(p)
        \/ InsertOk(p)
        \/ InsertFails(p)
        \/ Commit(p)
        \/ Return(p)
        \/ Finish(p)

SpecConc == Init /\ [][NextConc]_vars

\* ================================================================ claims
\* a BulkCreateCustomers call of p has returned normally
Returned(p) == pc[p] = "done" /\ result[p].kind = "bulk"

\* the messages a rejection of one candidate can carry
MessagesFor(item) ==
    {NameMessage, EmailMessage, PhoneMessage,
     DuplicateMessage(Lower(Strip(item.email))), ExistsMessage(Lower(Strip(item.email)))}

\* the error strings that report candidate k (1-based) of p's batch
ReportsOf(p, k) ==
    {"Item " \o ToString(k) \o ": ['" \o m \o "']" : m \in MessagesFor(input[p][k])}

\* positions of the returned error list that report candidate k
ErrorsAbout(p, k) ==
    LET reports == ReportsOf(p, k)
    IN  {j \in 1..Len(result[p].errors) : result[p].errors[j] \in reports}

Rejected(p, k) ==
    LET reports == ReportsOf(p, k)
    IN  \E j \in 1..Len(result[p].errors) : result[p].errors[j] \in reports

\* C1: when a batch call returns normally, the created records and the
\* error strings together account for every candidate exactly once: the two
\* lists add up to the batch length, every error string reports one
\* candidate, no candidate is reported twice, the candidates not reported
\* are as many as the created records, and the two counters are the list
\* length and the batch length.
C1_EveryCandidateAccounted ==
    \A p \in Procs :
        Returned(p) =>
            LET r == result[p]
                n == Len(input[p])
            IN  /\ Len(r.customers) + Len(r.errors) = n
                /\ \A j \in 1..Len(r.errors) : \E k \in 1..n : r.errors[j] \in ReportsOf(p, k)
                /\ \A k \in 1..n : Cardinality(ErrorsAbout(p, k)) <= 1
                /\ Cardinality({k \in 1..n : ~Rejected(p, k)}) = Len(r.customers)
                /\ r.success_count = Len(r.customers)
                /\ r.total_count = n

\* a full batch returned with both created records and errors
C1_Witness ==
    \E p \in Procs :
        /\ Returned(p)
        /\ Len(input[p]) = MaxBatch
        /\ result[p].customers # <<>>
        /\ result[p].errors # <<>>

\* the checks of section 4.1, each on its own
FailsName(item) == Strip(item.name) = <<>>
FailsEmail(item) == validate_email(Lower(Strip(item.email))) # ""
FailsPhone(item) ==
    /\ item.phone # None
    /\ Strip(item.phone[1]) # <<>>
    /\ ~PHONE_RE_match(Strip(item.phone[1]))
FailsBatch(p, k) ==
    \E j \in 1..(k - 1) :
        /\ Lower(Strip(input[p][j].email)) = Lower(Strip(input[p][k].email))
        /\ ~Rejected(p, j)
FailsStored(p, k) ==
    \E i \in 1..Len(storage_before[p]) :
        storage_before[p][i].email = Lower(Strip(input[p][k].email))

\* the message of the lowest-numbered check candidate k fails, "" for none
FirstFailing(p, k) ==
    LET item == input[p][k]
    IN  IF FailsName(item) THEN NameMessage
        ELSE IF FailsEmail(item) THEN EmailMessage
        ELSE IF FailsPhone(item) THEN PhoneMessage
        ELSE IF FailsBatch(p, k) THEN DuplicateMessage(Lower(Strip(item.email)))
        ELSE IF FailsStored(p, k) THEN ExistsMessage(Lower(Strip(item.email)))
        ELSE ""

\* C2: a candidate that fails some of the five checks is reported with the
\* message of the lowest-numbered check it fails and with no other message;
\* a candidate that fails none is not reported.
C2_FirstFailingCheckReported ==
    \A p \in Procs :
        Returned(p) =>
            \A k \in 1..Len(input[p]) :
                LET first == FirstFailing(p, k)
                    reports == ReportsOf(p, k)
                    expected == "Item " \o ToString(k) \o ": ['" \o first \o "']"
                IN  IF first = ""
                    THEN ~Rejected(p, k)
                    ELSE /\ \E j \in 1..Len(result[p].errors) : result[p].errors[j] = expected
                         /\ \A j \in 1..Len(result[p].errors) :
                               result[p].errors[j] \in reports => result[p].errors[j] = expected

\* a reported candidate failed the email check and the phone check, and
\* another failed the name, email and phone checks
C2_Witness ==
    \E p \in Procs :
        /\ Returned(p)
        /\ \E k \in 1..Len(input[p]) :
              /\ ~FailsName(input[p][k])
              /\ FailsEmail(input[p][k])
              /\ FailsPhone(input[p][k])
              /\ Rejected(p, k)
        /\ \E k \in 1..Len(input[p]) :
              /\ FailsName(input[p][k])
              /\ FailsEmail(input[p][k])
              /\ FailsPhone(input[p][k])
              /\ Rejected(p, k)

\* trimmed and lower-cased, computed on the stored or submitted string
Normalized(e) == Lower(Strip(e))

\* C3: under sequential calls of the two mutations, from a table whose
\* emails are pairwise distinct after normalisation, no two persisted rows
\* have the same normalised email, and the rows the calls create (persisted
\* or returned) store the email in normalised form.
C3_EmailsStayUnique ==
    /\ \A i, j \in 1..Len(storage) :
          i # j => Normalized(storage[i].email) # Normalized(storage[j].email)
    /\ \A i \in 1..Len(storage) : storage[i].email = Normalized(storage[i].email)
    /\ \A p \in Procs : \A i \in 1..Len(result[p].customers) :
          result[p].customers[i].email = Normalized(result[p].customers[i].email)

\* CreateCustomer has just created a row, next to a row the bulk call
\* created from the candidate whose email was sent padded and in upper case
C3_Witness ==
    \E p \in Procs :
        /\ pc[p] = "done"
        /\ result[p].kind = "single"
        /\ result[p].success
        /\ result[p].customers[1] = storage[Len(storage)]
        /\ \E i \in 1..Len(storage) :
              /\ storage[i].name = Strip(NameAnn)
              /\ storage[i].email = Normalized(EmailAUpper)
              /\ storage[i].email # Strip(EmailAUpper)

\* C4: when an insert of the persistence pass fails, the table is what it
\* was before the call (also when earlier inserts of the pass succeeded),
\* no transaction stays open, and the call ends with one exception that
\* carries neither created records nor the per-item errors.
C4_FailedInsertRollsBack ==
    \A p \in Procs :
        pc[p] = "raised" =>
            /\ storage = storage_before[p]
            /\ txn[p] = <<>>
            /\ ~txn_open[p]
            /\ result[p].kind = "exception"
            /\ result[p].customers = <<>>
            /\ result[p].errors = <<>>

\* the failing insert came after a successful one, in a batch that also had
\* a rejected candidate
C4_Witness ==
    \E p \in Procs :
        /\ pc[p] = "raised"
        /\ created[p] # <<>>
        /\ Len(created[p]) < Len(valid_payloads[p])
        /\ errors[p] # <<>>

\* candidate j passes the name, email and phone checks
PassesFormat(item) == ~FailsName(item) /\ ~FailsEmail(item) /\ ~FailsPhone(item)

\* j is the first candidate of p's batch that passes the format checks
\* among those with its normalised email, and that email is not stored
FirstOccurrence(p, j) ==
    /\ PassesFormat(input[p][j])
    /\ ~FailsStored(p, j)
    /\ \A i \in 1..(j - 1) :
          Normalized(input[p][i].email) = Normalized(input[p][j].email)
              => ~PassesFormat(input[p][i])

LaterOccurrences(p, j) ==
    {k \in (j + 1)..Len(input[p]) :
        Normalized(input[p][k].email) = Normalized(input[p][j].email)}

CreatedWithEmail(p, e) ==
    {i \in 1..Len(result[p].customers) : result[p].customers[i].email = e}

DuplicateReport(p, k) ==
    "Item " \o ToString(k) \o ": ['Duplicate email in request: "
        \o Join(Normalized(input[p][k].email)) \o "']"

\* C5 as stated: every later occurrence of the email of an accepted first
\* occurrence is reported as 'Duplicate email in request', and one record
\* is created for the email.
C5_AsStated ==
    \A p \in Procs :
        Returned(p) =>
            \A j \in 1..Len(input[p]) :
                FirstOccurrence(p, j) =>
                    /\ Cardinality(CreatedWithEmail(p, Normalized(input[p][j].email))) = 1
                    /\ \A k \in LaterOccurrences(p, j) :
                          \E n \in 1..Len(result[p].errors) :
                              result[p].errors[n] = DuplicateReport(p, k)

\* C5, amended: one record is created for the email, from the first
\* occurrence; every later occurrence is rejected, with 'Duplicate email in
\* request' when it passes the name, email and phone checks and with the
\* message of the first of those checks it fails otherwise.
C5_OneRecordPerBatchEmail ==
    \A p \in Procs :
        Returned(p) =>
            \A j \in 1..Len(input[p]) :
                FirstOccurrence(p, j) =>
                    /\ Cardinality(CreatedWithEmail(p, Normalized(input[p][j].email))) = 1
                    /\ \E i \in 1..Len(result[p].customers) :
                          /\ result[p].customers[i].email = Normalized(input[p][j].email)
                          /\ result[p].customers[i].name = Strip(input[p][j].name)
                    /\ ~Rejected(p, j)
                    /\ \A k \in LaterOccurrences(p, j) :
                          /\ Rejected(p, k)
                          /\ PassesFormat(input[p][k]) =>
                                \E n \in 1..Len(result[p].errors) :
                                    result[p].errors[n] = DuplicateReport(p, k)
                          /\ ~PassesFormat(input[p][k]) =>
                                \A n \in 1..Len(result[p].errors) :
                                    result[p].errors[n] # DuplicateReport(p, k)

\* three candidates with one normalised email, sent in different case and
\* padding: the first created, the second and third reported as duplicates
C5_Witness ==
    \E p \in Procs :
        /\ Returned(p)
        /\ Len(input[p]) = 3
        /\ FirstOccurrence(p, 1)
        /\ LaterOccurrences(p, 1) = {2, 3}
        /\ input[p][1].email # input[p][2].email
        /\ Len(result[p].customers) = 1
        /\ result[p].errors = <<DuplicateReport(p, 2), DuplicateReport(p, 3)>>

\* p is inside a BulkCreateCustomers call or has just left it
InBulkCall(p) == pc[p] \in {"validate", "atomic", "return", "raised"} \/ Returned(p)

RowsWithEmail(rows, e) == {i \in 1..Len(rows) : rows[i].email = e}

\* C6: a candidate whose normalised email is in the table when the call
\* starts is never inserted, whatever its position: throughout the call the
\* table and the open transaction together hold exactly one row with that
\* email, and a call that returns reports the candidate in errors and
\* returns no record with that email.
C6_StoredEmailNeverCreated ==
    \A p \in Procs :
        InBulkCall(p) =>
            \A k \in 1..Len(input[p]) :
                FailsStored(p, k) =>
                    LET e == Normalized(input[p][k].email)
                    IN  /\ Cardinality(RowsWithEmail(storage, e)) = 1
                        /\ RowsWithEmail(txn[p], e) = {}
                        /\ RowsWithEmail(created[p], e) = {}
                        /\ Returned(p) => Rejected(p, k) /\ CreatedWithEmail(p, e) = {}

\* the stored email came last in a batch whose other candidates were
\* created
C6_Witness ==
    \E p \in Procs :
        /\ Returned(p)
        /\ Len(input[p]) = 3
        /\ FailsStored(p, 3)
        /\ PassesFormat(input[p][3])
        /\ Rejected(p, 3)
        /\ Len(result[p].customers) = 2

\* C7: a call that repeats, with no write in between, the batch of a call
\* that created every candidate creates nothing, leaves the table as it
\* was, never enters the persistence pass, and reports every candidate, in
\* order, as 'Email already exists'.
C7_ResubmissionRejected ==
    \A p \in Procs :
        resubmit[p] =>
            /\ pc[p] \notin {"atomic", "raised"}
            /\ storage = storage_before[p]
            /\ Returned(p) =>
                  /\ result[p].customers = <<>>
                  /\ result[p].success_count = 0
                  /\ Len(result[p].errors) = Len(input[p])
                  /\ \A k \in 1..Len(input[p]) :
                        result[p].errors[k]
                            = "Item " \o ToString(k) \o ": ['Email already exists: "
                                \o Join(Normalized(input[p][k].email)) \o "']"

\* the repeated batch had two candidates, both created by the first call
C7_Witness ==
    \E p \in Procs :
        /\ resubmit[p]
        /\ Returned(p)
        /\ Len(input[p]) = 2
        /\ Len(storage) >= 2

\* the numbers of S in ascending order
RECURSIVE Ascending(_)
Ascending(S) ==
    IF S = {} THEN <<>>
    ELSE LET least == CHOOSE x \in S : \A y \in S : x <= y
         IN  <<least>> \o Ascending(S \ {least})

RejectedPositions(p) == Ascending({k \in 1..Len(input[p]) : Rejected(p, k)})
AcceptedPositions(p) == Ascending({k \in 1..Len(input[p]) : ~Rejected(p, k)})

\* C8: the created records are the trimmed, normalised candidates that were
\* not rejected, in the order of the batch, and they are the rows the call
\* appended to the table, in that order; the error strings report the
\* rejected candidates in strictly ascending position, each starting with
\* 'Item k: ' for the 1-based position k.
C8_OrderOfCreatedAndErrors ==
    \A p \in Procs :
        Returned(p) =>
            LET accepted == AcceptedPositions(p)
                rejected == RejectedPositions(p)
                r == result[p]
            IN  /\ Len(r.customers) = Len(accepted)
                /\ \A i \in 1..Len(accepted) :
                      /\ r.customers[i].name = Strip(input[p][accepted[i]].name)
                      /\ r.customers[i].email = Normalized(input[p][accepted[i]].email)
                /\ storage = storage_before[p] \o r.customers
                /\ Len(r.errors) = Len(rejected)
                /\ \A j \in 1..Len(rejected) : r.errors[j] \in ReportsOf(p, rejected[j])

\* rejected, created, rejected: the errors name items 1 and 3 in that order
C8_WitnessErrorOrder ==
    \E p \in Procs :
        /\ Returned(p)
        /\ Len(input[p]) = 3
        /\ RejectedPositions(p) = <<1, 3>>
        /\ result[p].errors[2] \in ReportsOf(p, 3)
        /\ Len(result[p].customers) = 1

\* created, rejected, created: two records in batch order and one error
\* that names item 2
C8_Witness ==
    \E p \in Procs :
        /\ Returned(p)
        /\ AcceptedPositions(p) = <<1, 3>>
        /\ result[p].customers[1].email # result[p].customers[2].email
        /\ result[p].errors[1] \in ReportsOf(p, 2)

\* C9: the table changes only by the rows the call returns as created.
\* While the candidates are validated nothing is written and no transaction
\* is open; a transaction is open only once every candidate has been
\* validated; throughout the call the rows that were there stay as they
\* were; a call that returns has appended exactly its created records; a
\* call whose batch is empty or has no valid candidate returns no created
\* record, with the table as it was and without having entered the atomic
\* block.
C9_OnlyCreatedRowsAdded ==
    \A p \in Procs :
        InBulkCall(p) =>
            /\ pc[p] = "validate" =>
                  /\ storage = storage_before[p]
                  /\ txn[p] = <<>>
                  /\ ~txn_open[p]
                  /\ opened[p] = 0
            /\ txn_open[p] => idx[p] = Len(input[p])
            /\ txn[p] # <<>> => txn_open[p]
            /\ Len(storage) >= Len(storage_before[p])
            /\ SubSeq(storage, 1, Len(storage_before[p])) = storage_before[p]
            /\ pc[p] \in {"atomic", "raised"} => storage = storage_before[p]
            /\ Returned(p) =>
                  /\ storage = storage_before[p] \o result[p].customers
                  /\ (\A k \in 1..Len(input[p]) : Rejected(p, k)) =>
                        /\ result[p].customers = <<>>
                        /\ storage = storage_before[p]
                        /\ opened[p] = 0

\* a call returned with every candidate of a full batch rejected, on a
\* table that holds rows
C9_Witness ==
    \E p \in Procs :
        /\ Returned(p)
        /\ Len(input[p]) = MaxBatch
        /\ \A k \in 1..Len(input[p]) : Rejected(p, k)
        /\ storage # <<>>

\* the shapes of a phone number, read off the characters
AllDigits(s) == \A i \in 1..Len(s) : s[i] \in Digits
PlusForm(ph) == Len(ph) \in 8..16 /\ ph[1] = "+" /\ AllDigits(Tail(ph))
DigitsOnlyForm(ph) == Len(ph) \in 7..15 /\ AllDigits(ph)
DashedForm(ph) ==
    /\ Len(ph) = 12
    /\ \A i \in 1..12 : IF i \in {4, 8} THEN ph[i] = "-" ELSE ph[i] \in Digits

\* candidate k of p's batch has a phone that is not empty once trimmed, and
\* passes the name and email checks
ReachesPhoneCheck(p, k) ==
    /\ input[p][k].phone # None
    /\ Strip(input[p][k].phone[1]) # <<>>
    /\ ~FailsName(input[p][k])
    /\ ~FailsEmail(input[p][k])

PhoneReport(k) ==
    "Item " \o ToString(k) \o ": ['Invalid phone format. Use +1234567890 or 123-456-7890.']"

PhoneRejected(p, k) == \E n \in 1..Len(result[p].errors) : result[p].errors[n] = PhoneReport(k)

\* C10 as stated: a present phone that is neither '+' followed by 7 to 15
\* digits nor DDD-DDD-DDDD is rejected with the phone-format error.
C10_AsStated ==
    \A p \in Procs :
        Returned(p) =>
            \A k \in 1..Len(input[p]) :
                ReachesPhoneCheck(p, k) =>
                    LET ph == Strip(input[p][k].phone[1])
                    IN  ~(PlusForm(ph) \/ DashedForm(ph)) => PhoneRejected(p, k)

\* C10, amended: the phone-format error is reported exactly when the
\* trimmed phone is none of: '+' followed by 7 to 15 digits, 7 to 15 digits
\* without the '+', DDD-DDD-DDDD.
C10_PhoneShapes ==
    \A p \in Procs :
        Returned(p) =>
            \A k \in 1..Len(input[p]) :
                ReachesPhoneCheck(p, k) =>
                    LET ph == Strip(input[p][k].phone[1])
                    IN  PhoneRejected(p, k)
                            <=> ~(PlusForm(ph) \/ DigitsOnlyForm(ph) \/ DashedForm(ph))

\* one batch with a digits-only phone that was created, a '+' with six
\* digits that was rejected and a '+' with sixteen digits that was rejected
C10_Witness ==
    \E p \in Procs :
        /\ Returned(p)
        /\ \E k \in 1..Len(input[p]) :
              /\ ReachesPhoneCheck(p, k)
              /\ DigitsOnlyForm(input[p][k].phone[1])
              /\ ~Rejected(p, k)
        /\ \E k \in 1..Len(input[p]) :
              /\ ReachesPhoneCheck(p, k)
              /\ input[p][k].phone[1] = PhonePlusShort
              /\ PhoneRejected(p, k)
        /\ \E k \in 1..Len(input[p]) :
              /\ ReachesPhoneCheck(p, k)
              /\ input[p][k].phone[1] = PhonePlusLong
              /\ PhoneRejected(p, k)

\* C11, safety part: a call enters the atomic block at most once, the block
\* is open exactly while the call is in its persistence pass, rows are
\* pending only inside it, and every row the call has created so far was
\* written inside it.
C11_OneScope ==
    \A p \in Procs :
        /\ opened[p] <= 1
        /\ txn_open[p] <=> pc[p] = "atomic"
        /\ txn_open[p] => opened[p] = 1
        /\ txn[p] # <<>> => txn_open[p]
        /\ pc[p] = "atomic" => txn[p] = created[p]
        /\ created[p] # <<>> => opened[p] = 1

\* C11, how the block is left: by commit, with every payload inserted and
\* the pending rows appended to the table, or by rollback, after a failing
\* insert, with the table untouched and the call ending in the exception.
C11_ClosedByCommitOrRollback ==
    \A p \in Procs :
        (txn_open[p] /\ ~txn_open'[p]) =>
            \/ /\ Len(created[p]) = Len(valid_payloads[p])
               /\ storage' = storage \o txn[p]
               /\ pc'[p] = "return"
            \/ /\ Len(created[p]) < Len(valid_payloads[p])
               /\ storage' = storage
               /\ pc'[p] = "raised"

\* C11: every call that opens the persistence transaction eventually closes
\* it, by commit when all inserts succeed and by rollback when one fails; no
\* exit path leaves it open; a call opens at most one, and all its inserts
\* are inside it.
C11_TransactionAlwaysClosed ==
    /\ []C11_OneScope
    /\ [][C11_ClosedByCommitOrRollback]_vars
    /\ \A p \in Procs : txn_open[p] ~> ~txn_open[p]
    /\ \A p \in Procs : []((pc[p] \in {"return", "done", "raised", "idle"}) => ~txn_open[p])

\* a call has left its transaction by rollback after an insert succeeded
\* in it, having opened it once
C11_Witness ==
    \E p \in Procs :
        /\ pc[p] = "raised"
        /\ opened[p] = 1
        /\ ~txn_open[p]
        /\ Len(created[p]) >= 2

\* candidate k passes the name, email and phone checks and so does an
\* earlier candidate of the batch with the same normalised email
RepeatsFormatPassing(p, k) ==
    /\ PassesFormat(input[p][k])
    /\ \E i \in 1..(k - 1) :
          /\ PassesFormat(input[p][i])
          /\ Normalized(input[p][i].email) = Normalized(input[p][k].email)

ExistsReport(p, k) ==
    "Item " \o ToString(k) \o ": ['Email already exists: "
        \o Join(Normalized(input[p][k].email)) \o "']"

Reported(p, report) == \E n \in 1..Len(result[p].errors) : result[p].errors[n] = report

\* the normalised emails of the first n candidates of p's batch that pass
\* the name, email and phone checks
EmailsPassingFormat(p, n) ==
    {Normalized(input[p][i].email) : i \in {j \in 1..n : PassesFormat(input[p][j])}}

\* C12 as stated: the seen-emails set holds the emails of all candidates
\* examined so far that passed the name, email and phone checks, and a
\* candidate that passes them and repeats the email of an earlier one that
\* passed them is reported as 'Duplicate email in request', also when the
\* email is stored.
C12_AsStated ==
    \A p \in Procs :
        /\ pc[p] = "validate" => emails_seen[p] = EmailsPassingFormat(p, idx[p])
        /\ Returned(p) =>
              \A k \in 1..Len(input[p]) :
                  RepeatsFormatPassing(p, k) => Reported(p, DuplicateReport(p, k))

\* C12, amended: the seen-emails set holds the emails of the candidates
\* accepted so far, those that passed all five checks; a candidate that
\* passes the name, email and phone checks and repeats the email of an
\* earlier one that passed them is reported as 'Duplicate email in request'
\* when the email was not stored at the start of the call, and as 'Email
\* already exists' when it was.
C12_SeenHoldsAcceptedEmails ==
    \A p \in Procs :
        /\ pc[p] = "validate" =>
              /\ emails_seen[p]
                    = {valid_payloads[p][i].email : i \in 1..Len(valid_payloads[p])}
              /\ emails_seen[p]
                    = {e \in EmailsPassingFormat(p, idx[p]) : ~EmailExists(storage, e)}
        /\ Returned(p) =>
              \A k \in 1..Len(input[p]) :
                  RepeatsFormatPassing(p, k) =>
                      IF FailsStored(p, k)
                      THEN /\ Reported(p, ExistsReport(p, k))
                           /\ ~Reported(p, DuplicateReport(p, k))
                      ELSE /\ Reported(p, DuplicateReport(p, k))
                           /\ ~Reported(p, ExistsReport(p, k))

\* a stored email was sent twice in one batch, both times passing the
\* format checks, and the repeat was reported as already existing
C12_Witness ==
    \E p \in Procs :
        /\ Returned(p)
        /\ Len(input[p]) >= 2
        /\ RepeatsFormatPassing(p, 2)
        /\ FailsStored(p, 2)
        /\ Reported(p, ExistsReport(p, 2))
        /\ result[p].customers = <<>>

PayloadEmails(p) == {valid_payloads[p][i].email : i \in 1..Len(valid_payloads[p])}

\* both calls are in the persistence pass with a payload of email e
BothPersisting(p, q, e) ==
    /\ p # q
    /\ pc[p] = "atomic"
    /\ pc[q] = "atomic"
    /\ e \in PayloadEmails(p) \cap PayloadEmails(q)

\* C13, the state of the race: when two concurrent calls are both in the
\* persistence pass with the same normalised email, no committed row has
\* that email and each call holds it in its own seen set, so each passed
\* its duplicate and already-exists checks for it.
C13_BothPassedTheChecks ==
    \A p, q \in Procs :
        \A e \in PayloadEmails(p) :
            BothPersisting(p, q, e) =>
                /\ RowsWithEmail(storage, e) = {}
                /\ e \in emails_seen[p] \cap emails_seen[q]

\* C13, the check: a call that examines a candidate passing the name, email
\* and phone checks, with an email that is in no committed row and not in
\* its own seen set, marks it valid although a concurrent call has marked
\* the same email valid and is about to insert it or has inserted it in a
\* transaction still open.
C13_CheckIgnoresOtherCall ==
    \A p, q \in Procs :
        (p # q /\ pc[p] = "validate" /\ idx'[p] = idx[p] + 1) =>
            LET item == input[p][idx[p] + 1]
                e == Normalized(item.email)
            IN  ( /\ PassesFormat(item)
                  /\ e \notin emails_seen[p]
                  /\ RowsWithEmail(storage, e) = {}
                  /\ pc[q] \in {"validate", "atomic"}
                  /\ e \in PayloadEmails(q) ) =>
                    /\ valid_payloads'[p] = Append(valid_payloads[p], Payload(item))
                    /\ errors'[p] = errors[p]
                    /\ e \in emails_seen'[p]

\* C13: when two BulkCreateCustomers calls run concurrently with the same
\* normalised email, not yet stored, in an otherwise valid candidate of
\* each, the validation of one call takes no account of the other: both
\* pass the already-exists check and both reach the persistence pass with
\* the email.
C13_RaceUnguarded ==
    /\ []C13_BothPassedTheChecks
    /\ [][C13_CheckIgnoresOtherCall]_vars

\* both calls are in the persistence pass with the same email, sent in two
\* spellings, and the first has inserted its row in its open transaction
C13_Witness ==
    \E e \in PayloadEmails(1) :
        /\ BothPersisting(1, 2, e)
        /\ RowsWithEmail(storage, e) = {}
        /\ RowsWithEmail(txn[1], e) # {}
        /\ \E i \in 1..Len(input[1]), j \in 1..Len(input[2]) :
              /\ Normalized(input[1][i].email) = e
              /\ Normalized(input[2][j].email) = e
              /\ input[1][i].email # input[2][j].email

====
